---------------------------- MODULE Spec2Model ----------------------------
(***************************************************************************)
(* A model of the word-frequency counter of src/main.rs: the tokenizer     *)
(* (count_words), the collector (WordCount::collect with from_file,        *)
(* from_dir, from_stdin and count), the four sort comparators and the      *)
(* plain and csv formatters.                                               *)
(*                                                                         *)
(* Text is a sequence of Unicode code points.  A Rust String is the UTF-8  *)
(* encoding of such a sequence: String::len and String::cmp work on the    *)
(* bytes, so the model encodes before it measures or compares.             *)
(***************************************************************************)
EXTENDS Integers, Sequences, FiniteSets, TLC

VARIABLES
    ignore_case,  \* WordCountParams.ignore_case
    recursive,    \* WordCountParams.recursive
    sort_by,      \* WordCountParams.sort_by: "none" or a comparator's name
    buf,          \* WordCount.buf
    map,          \* WordCount.map
    in_path,      \* collect's argument: NoPaths (stdin) or SomePaths(paths)
    fs,           \* the file system the run sees
    stdin,        \* what standard input delivers
    pc,           \* where collect stands
    idx,          \* the path of in_path the for loop of collect is at
    stack,        \* the from_dir activations, innermost last
    err,          \* the error travelling up the from_dir activations
    result,       \* what collect returned
    log,          \* history: every unit or directory the run touched
    firstErr,     \* history: the first error raised
    text,         \* count_words: the text of the last call
    prev,         \* count_words: the Dictionary before the last call
    calls,        \* count_words: calls made so far
    first,        \* comparators: the first pair
    second,       \* comparators: the second pair
    third,        \* comparators: a third pair (transitivity)
    ord,          \* comparators: what each comparator returned
    items,        \* the WordCountVec handed to a formatter or built by count
    sink,         \* formatters: the bytes written
    format        \* formatters: "plain" or "csv"

vars == <<ignore_case, recursive, sort_by, buf, map, in_path, fs, stdin, pc,
          idx, stack, err, result, log, firstErr, text, prev, calls, first,
          second, third, ord, items, sink, format>>

collectVars == <<recursive, buf, in_path, fs, stdin, pc, idx, stack, err,
                 result, log, firstErr>>
wordVars == <<text, prev, calls>>
cmpVars == <<first, second, third, ord>>
fmtVars == <<sink, format>>

----------------------------------------------------------------------------
(* Bounds *)

MaxTextLen == 3
MaxCalls == 2

----------------------------------------------------------------------------
(* Characters and strings *)

\* The code points the short texts are drawn from: 'A', 'a' and the digit '1'.
TextChars == {65, 97, 49}

\* char::is_alphabetic, on the Latin-1 range: A-Z, a-z and the letters of
\* U+00C0..U+00FF (all but the signs U+00D7 and U+00F7), plus U+00AA, U+00B5
\* and U+00BA.
is_alphabetic(c) ==
    \/ c \in 65..90
    \/ c \in 97..122
    \/ c \in {170, 181, 186}
    \/ (c \in 192..255 /\ c \notin {215, 247})

\* char::to_lowercase on the same range: A-Z and U+00C0..U+00DE (without
\* U+00D7) move 32 up, everything else maps to itself.
char_to_lowercase(c) ==
    IF c \in 65..90 \/ (c \in 192..222 /\ c # 215) THEN c + 32 ELSE c

\* str::to_lowercase
to_lowercase(s) == [i \in 1..Len(s) |-> char_to_lowercase(s[i])]

\* str::split(|c| !c.is_alphabetic()): the pieces between the delimiters,
\* empty ones included (n delimiters give n+1 pieces).
RECURSIVE split(_, _)
split(s, cur) ==
    IF s = <<>> THEN <<cur>>
    ELSE IF ~is_alphabetic(Head(s)) THEN <<cur>> \o split(Tail(s), <<>>)
    ELSE split(Tail(s), Append(cur, Head(s)))

\* map.entry(w).or_insert(0); *count += 1.  The count is a u32; the runs of
\* this model add a handful of words, so the addition never reaches 2^32 and
\* is written without its wrap-around.
IncrementWrong(m, w) ==
    IF w \in DOMAIN m THEN [m EXCEPT ![w] = 1]
    ELSE [x \in DOMAIN m \cup {w} |-> IF x = w THEN 1 ELSE m[x]]

Increment(m, w) ==
    IF w \in DOMAIN m THEN [m EXCEPT ![w] = m[w] + 1]
    ELSE [x \in DOMAIN m \cup {w} |-> IF x = w THEN 1 ELSE m[x]]

\* the closure `case` of count_words
case(word, ic) == IF ic THEN to_lowercase(word) ELSE word

\* the for loop of count_words over the pieces
RECURSIVE count_pieces(_, _, _)
count_piecesKeepEmpty(words, m, ic) ==
    IF words = <<>> THEN m
    ELSE count_pieces(Tail(words), Increment(m, case(Head(words), ic)), ic)

count_pieces(words, m, ic) ==
    IF words = <<>> THEN m
    ELSE IF Head(words) = <<>> THEN count_pieces(Tail(words), m, ic)
    ELSE count_pieces(Tail(words), Increment(m, case(Head(words), ic)), ic)

count_words(s, m, ic) == count_pieces(split(s, <<>>), m, ic)

EmptyMap == [w \in {} |-> 0]

----------------------------------------------------------------------------
(* Strings as Rust holds them, and the comparators *)

\* The UTF-8 encoding of a code point below U+0800.
utf8(c) == IF c < 128 THEN <<c>> ELSE <<192 + (c \div 64), 128 + (c % 64)>>

\* The bytes of a String.
RECURSIVE bytes(_)
bytes(s) == IF s = <<>> THEN <<>> ELSE utf8(Head(s)) \o bytes(Tail(s))

\* String::len: the length in bytes.
len(s) == Len(bytes(s))

\* Ord::cmp on integers (u32, usize, u8).
cmp_int(a, b) == IF a < b THEN "Less" ELSE IF a > b THEN "Greater" ELSE "Equal"

\* Ord::cmp on byte slices: the first differing byte decides, then the length.
RECURSIVE cmp_bytes(_, _)
cmp_bytes(a, b) ==
    IF a = <<>> \/ b = <<>> THEN cmp_int(Len(a), Len(b))
    ELSE IF Head(a) # Head(b) THEN cmp_int(Head(a), Head(b))
    ELSE cmp_bytes(Tail(a), Tail(b))

\* String::cmp
cmp_str(a, b) == cmp_bytes(bytes(a), bytes(b))

\* A WordPair is <<word, count>>.
count_ascNoLen(p, q) ==
    LET count == cmp_int(p[2], q[2])
    IN  IF count = "Equal" THEN cmp_str(p[1], q[1]) ELSE count

count_asc(p, q) ==
    LET count == cmp_int(p[2], q[2])
    IN  IF count = "Equal"
        THEN LET l == cmp_int(len(p[1]), len(q[1]))
             IN  IF l = "Equal" THEN cmp_str(p[1], q[1]) ELSE l
        ELSE count

count_descNoTie(p, q) == cmp_int(q[2], p[2])

count_desc(p, q) ==
    LET o == cmp_int(q[2], p[2])
    IN  IF o = "Equal" THEN cmp_str(q[1], p[1]) ELSE o

alpha_asc(p, q) == cmp_str(p[1], q[1])

alpha_desc(p, q) == cmp_str(q[1], p[1])

SortBys == {"count_asc", "count_desc", "alpha_asc", "alpha_desc"}

\* The call through the function pointer sort_by.
compare(sb, p, q) ==
    CASE sb = "count_asc" -> count_asc(p, q)
      [] sb = "count_desc" -> count_desc(p, q)
      [] sb = "alpha_asc" -> alpha_asc(p, q)
      [] sb = "alpha_desc" -> alpha_desc(p, q)

\* Vec::sort_by is a stable sort: x goes behind every element that is not
\* Greater than it.
RECURSIVE insert(_, _, _)
insert(sb, x, v) ==
    IF v = <<>> THEN <<x>>
    ELSE IF compare(sb, Head(v), x) = "Greater" THEN <<x>> \o v
    ELSE <<Head(v)>> \o insert(sb, x, Tail(v))

RECURSIVE sort(_, _)
sort(sb, v) ==
    IF v = <<>> THEN <<>>
    ELSE insert(sb, v[Len(v)], sort(sb, SubSeq(v, 1, Len(v) - 1)))

\* self.map.into_iter().collect(): the pairs of the map in any order.
into_iter(m) ==
    {[i \in 1..Cardinality(DOMAIN m) |-> <<f[i], m[f[i]]>>] :
        f \in {g \in [1..Cardinality(DOMAIN m) -> DOMAIN m] :
                  \A i, j \in 1..Cardinality(DOMAIN m) : i # j => g[i] # g[j]}}

\* WordCount::count: every vector it can return.
count(m, sb) ==
    {IF sb = "none" THEN v ELSE sort(sb, v) : v \in into_iter(m)}

----------------------------------------------------------------------------
(* Values shared by the specifications *)

\* Option<Vec<String>>: None, or Some(paths).
NoPaths == [some |-> FALSE, paths |-> <<>>]
SomePaths(ps) == [some |-> TRUE, paths |-> ps]
NoErr == [tag |-> "none"]
NoResult == [tag |-> "none"]
NoPair == <<<<>>, 0>>

\* All sequences over S of length at most n.
SeqsUpTo(S, n) == UNION {[1..k -> S] : k \in 0..n}

\* "a A", "Cat cat CAT" and "foo-bar 12": whitespace and punctuation.
SampleTexts ==
    {<<97, 32, 65>>,
     <<67, 97, 116, 32, 99, 97, 116, 32, 67, 65, 84>>,
     <<102, 111, 111, 45, 98, 97, 114, 32, 49, 50>>}

Texts == SeqsUpTo(TextChars, MaxTextLen) \cup SampleTexts

\* The variables a specification does not use keep these values.
IdleCollect ==
    /\ recursive = FALSE /\ buf = <<>> /\ in_path = NoPaths
    /\ fs = <<>> /\ stdin = <<>> /\ pc = "idle" /\ idx = 1 /\ stack = <<>>
    /\ err = NoErr /\ result = NoResult /\ log = <<>> /\ firstErr = NoErr
IdleWords == text = <<>> /\ prev = EmptyMap /\ calls = 0
IdleCmp == first = NoPair /\ second = NoPair /\ third = NoPair /\ ord = <<>>
IdleFmt == sink = <<>> /\ format = "none"

----------------------------------------------------------------------------
(* The tokenizer on its own: any sequence of count_words calls on one       *)
(* Dictionary that starts empty.                                            *)

InitWords ==
    /\ ignore_case \in BOOLEAN
    /\ sort_by = "none"
    /\ map = EmptyMap
    /\ items = <<>>
    /\ IdleCollect /\ IdleWords /\ IdleCmp /\ IdleFmt

CountWords ==
    /\ calls < MaxCalls
    /\ \E s \in Texts :
        /\ text' = s
        /\ map' = count_words(s, map, ignore_case)
    /\ prev' = map
    /\ calls' = calls + 1
    /\ UNCHANGED <<ignore_case, sort_by, items, collectVars, cmpVars, fmtVars>>

NextWords == CountWords

SpecWords == InitWords /\ [][NextWords]_vars

\* The value m holds for w: its count, 0 when w is no key.
CountOf(m, w) == IF w \in DOMAIN m THEN m[w] ELSE 0

\* C5: in every state reached by count_words calls from the empty Dictionary,
\* no key is the empty string and every stored count is at least 1.
C5_NoEmptyKeyCountsPositive ==
    \A w \in DOMAIN map : w # <<>> /\ map[w] >= 1

C5_Witness ==
    /\ calls = MaxCalls
    /\ text = <<49, 97, 49>>
    /\ prev = (<<97>> :> 1)
    /\ map = (<<97>> :> 2)

\* The end of the run of letters of s that starts at i.
RECURSIVE RunEnd(_, _)
RunEnd(s, i) ==
    IF i < Len(s) /\ is_alphabetic(s[i + 1]) THEN RunEnd(s, i + 1) ELSE i

\* The positions of s where a maximal run of letters starts.
RunStarts(s) ==
    {i \in 1..Len(s) : is_alphabetic(s[i]) /\ (i = 1 \/ ~is_alphabetic(s[i - 1]))}

\* How many maximal runs of letters of s are the word w, once lowercased when
\* ic holds and verbatim otherwise.
Runs(s, w, ic) ==
    Cardinality({i \in RunStarts(s) :
        LET run == SubSeq(s, i, RunEnd(s, i))
        IN  (IF ic THEN [k \in 1..Len(run) |-> char_to_lowercase(run[k])]
             ELSE run) = w})

\* Every piece of s, verbatim and lowercased: the words a call on s can touch.
Pieces(s) ==
    LET subs == {SubSeq(s, i, j) : i \in 1..Len(s) + 1, j \in 0..Len(s)}
    IN  subs \cup {[k \in 1..Len(x) |-> char_to_lowercase(x[k])] : x \in subs}

\* C6: after count_words(text, dict, ignoreCase) every word's count is its
\* count before plus the number of maximal runs of letters of text that are
\* that word (lowercased when ignoreCase holds); no key holds a delimiter, no
\* other key is added, changed or removed, and the empty text changes nothing.
C6_CountWordsAddsRuns ==
    calls > 0 =>
        /\ \A w \in Pieces(text) \cup DOMAIN map \cup DOMAIN prev :
            CountOf(map, w) = CountOf(prev, w) + Runs(text, w, ignore_case)
        /\ \A w \in DOMAIN map : \A k \in 1..Len(w) : is_alphabetic(w[k])
        /\ (text = <<>> => map = prev)

C6_Witness ==
    /\ ignore_case
    /\ text = <<65, 49, 97>>
    /\ prev = (<<97>> :> 1)
    /\ map = (<<97>> :> 3)

----------------------------------------------------------------------------
(* The collector: WordCount::collect over a file system *)

MaxPaths == 2

\* The paths a run can be given, and the tree below "d".
TopPaths == {"f", "x", "d"}
Paths == {"f", "x", "d", "d/g", "d/s", "d/s/h"}

Children(p) ==
    CASE p = "d" -> {"d/g", "d/s"}
      [] p = "d/s" -> {"d/s/h"}
      [] OTHER -> {}

\* What a successful read of the file at p delivers.
Content(p) ==
    CASE p = "f" -> <<97, 32, 65>>         \* "a A"
      [] p = "x" -> <<65>>                 \* "A"
      [] p = "d/g" -> <<98>>               \* "b"
      [] p = "d/s/h" -> <<97, 49, 98>>     \* "a1b"
      [] OTHER -> <<>>

\* A file-system entry: its kind ("none": no entry), for a symbolic link the
\* kind of what it points to ("none": the link is broken), whether reading
\* (a file) or listing (a directory) succeeds, and whether the iteration over
\* a directory's entries succeeds.
Node(kind, tgt, ok, iter_ok) ==
    [kind |-> kind, tgt |-> tgt, ok |-> ok, iter_ok |-> iter_ok]

XNodes ==
    {Node("none", "none", TRUE, TRUE), Node("device", "none", TRUE, TRUE),
     Node("link", "none", TRUE, TRUE), Node("link", "file", TRUE, TRUE)}

BadFiles == {"-", "f", "d/g", "d/s/h"}
DirFaults == {"-", "list d", "list d/s", "iter d", "iter d/s"}

MakeFs(x, bad, fault) ==
    [p \in Paths |->
        CASE p = "x" -> x
          [] p = "d" -> Node("dir", "none", fault # "list d", fault # "iter d")
          [] p = "d/s" ->
                Node("dir", "none", fault # "list d/s", fault # "iter d/s")
          [] OTHER -> Node("file", "none", bad # p, TRUE)]

\* The kind std::fs::metadata reports: symbolic links are followed.
Resolve(p) == IF fs[p].kind = "link" THEN fs[p].tgt ELSE fs[p].kind

\* Path::exists, Path::is_file, Path::is_dir: all three ask fs::metadata.
existsNoFollow(p) == fs[p].kind # "none"

exists(p) == Resolve(p) # "none"

is_file(p) == Resolve(p) = "file"

is_dir(p) == Resolve(p) = "dir"

InvalidPath(p) == [tag |-> "InvalidPath", path |-> p]
NotFileNorDir(p) == [tag |-> "NotFileNorDir", path |-> p]
ReadFile(p) == [tag |-> "ReadFile", path |-> p]
ReadDir(p) == [tag |-> "ReadDir", path |-> p]
ReadStdIn == [tag |-> "ReadStdIn", path |-> "stdin"]

Ok(v) == [tag |-> "Ok", vec |-> v]
Err(e) == [tag |-> "Err", err |-> e]

\* The if chain of collect on one path: what it does with src.
ClassifyDirFirst(src) ==
    IF is_dir(src) \/ ~exists(src) THEN "from_dir"
    ELSE IF is_file(src) THEN "from_file"
    ELSE "NotFileNorDir"

Classify(src) ==
    IF ~exists(src) THEN "InvalidPath"
    ELSE IF is_file(src) THEN "from_file"
    ELSE IF is_dir(src) THEN "from_dir"
    ELSE "NotFileNorDir"

\* The Ok arm of from_file and from_stdin once read_to_string has appended
\* data to the buffer b: the new buffer and map.
CountedKeepBuf(b, data, m) ==
    [buf |-> b \o data, map |-> count_words(b \o data, m, ignore_case),
     res |-> NoErr]

Counted(b, data, m) ==
    [buf |-> <<>>, map |-> count_words(b \o data, m, ignore_case),
     res |-> NoErr]

\* A failed read_to_string: the error, and the buffer with whatever valid
\* text arrived before the failure.
Failed(b, data, m, e) ==
    {[buf |-> b \o SubSeq(data, 1, k), map |-> m, res |-> e] :
        k \in 0..Len(data)}

\* from_file(path): every outcome.  Opening a directory succeeds or fails with
\* the platform, reading it fails; both are mapped to ReadFile.
from_file(p, b, m) ==
    IF is_file(p) /\ fs[p].ok THEN {Counted(b, Content(p), m)}
    ELSE Failed(b, Content(p), m, ReadFile(p))

\* from_stdin(): every outcome.
from_stdin(b, m) ==
    IF stdin.ok THEN {Counted(b, stdin.data, m)}
    ELSE Failed(b, stdin.data, m, ReadStdIn)

\* path.read_dir() of from_dir: the entries in the order the listing yields
\* them (any order), or ReadDir.
Orders(S) ==
    {f \in [1..Cardinality(S) -> S] :
        \A i, j \in 1..Cardinality(S) : i # j => f[i] # f[j]}

read_dir(p) ==
    IF fs[p].ok THEN {[res |-> NoErr, rest |-> f] : f \in Orders(Children(p))}
    ELSE {[res |-> ReadDir(p), rest |-> <<>>]}

\* The branch of from_dir's closure on an entry: descend or read as a file.
EntryBranchAlwaysDescend(e) == IF is_dir(e) THEN "from_dir" ELSE "from_file"

EntryBranch(e) == IF is_dir(e) /\ recursive THEN "from_dir" ELSE "from_file"

\* What from_dir(path) returns when its try_for_each stopped with e: the
\* and_then chain hands an inner error on as it is.
from_dir_resultRewrap(p, e) == ReadDir(p)

from_dir_result(p, e) == e

Event(op, p, to, b) == [op |-> op, path |-> p, to |-> to, buf0 |-> b]

Stdins == {[ok |-> TRUE, data |-> <<65, 32, 97>>], [ok |-> FALSE, data |-> <<65, 32, 97>>]}

Init ==
    /\ ignore_case \in BOOLEAN
    /\ recursive \in BOOLEAN
    /\ sort_by \in {"none", "count_asc"}
    /\ buf = <<>>
    /\ map = EmptyMap
    /\ in_path \in {NoPaths} \cup
        {SomePaths(ps) : ps \in SeqsUpTo(TopPaths, MaxPaths) \ {<<>>}}
    /\ \E x \in XNodes, bad \in BadFiles, fault \in DirFaults :
        fs = MakeFs(x, bad, fault)
    /\ stdin \in Stdins
    /\ (in_path = NoPaths => fs = MakeFs(Node("none", "none", TRUE, TRUE), "-", "-"))
    /\ (in_path # NoPaths => stdin.ok)
    /\ pc = "run"
    /\ idx = 1
    /\ stack = <<>>
    /\ err = NoErr
    /\ result = NoResult
    /\ log = <<>>
    /\ firstErr = NoErr
    /\ items = <<>>
    /\ IdleWords /\ IdleCmp /\ IdleFmt

idleRest == <<ignore_case, recursive, sort_by, in_path, fs, stdin, items,
              wordVars, cmpVars, fmtVars>>

\* collect returns Err(e) (the return of line 213 or 230).
ReturnErr(e) ==
    /\ result' = Err(e)
    /\ pc' = "done"

\* collect, in_path = None: from_stdin.
CollectStdin ==
    /\ pc = "run"
    /\ in_path = NoPaths
    /\ \E o \in from_stdin(buf, map) :
        /\ buf' = o.buf
        /\ map' = o.map
        /\ log' = Append(log, Event("read", "stdin", "from_stdin", buf))
        /\ IF o.res = NoErr
           THEN pc' = "count" /\ UNCHANGED <<result, firstErr>>
           ELSE ReturnErr(o.res) /\ firstErr' = o.res
    /\ UNCHANGED <<idx, stack, err, idleRest>>

\* One round of the for loop of collect: classify the path and read a file,
\* enter a directory or fail.
CollectPath ==
    /\ pc = "run"
    /\ in_path # NoPaths
    /\ idx <= Len(in_path.paths)
    /\ LET src == in_path.paths[idx]
           to == Classify(src)
       IN  CASE to = "from_file" ->
                    \E o \in from_file(src, buf, map) :
                        /\ buf' = o.buf
                        /\ map' = o.map
                        /\ log' = log \o <<Event("collect", src, to, buf),
                                           Event("read", src, "from_file", buf)>>
                        /\ IF o.res = NoErr
                           THEN /\ idx' = idx + 1
                                /\ UNCHANGED <<pc, result, firstErr>>
                           ELSE /\ ReturnErr(o.res)
                                /\ firstErr' = o.res
                                /\ UNCHANGED idx
                        /\ UNCHANGED stack
              [] to = "from_dir" ->
                    \E o \in read_dir(src) :
                        /\ log' = log \o <<Event("collect", src, to, buf),
                                           Event("list", src, "from_dir", buf)>>
                        /\ IF o.res = NoErr
                           THEN /\ stack' = <<[path |-> src, rest |-> o.rest]>>
                                /\ pc' = "dir"
                                /\ UNCHANGED <<result, firstErr>>
                           ELSE /\ ReturnErr(o.res)
                                /\ firstErr' = o.res
                                /\ UNCHANGED stack
                        /\ UNCHANGED <<buf, map, idx>>
              [] OTHER ->
                    /\ log' = Append(log, Event("collect", src, to, buf))
                    /\ ReturnErr(IF to = "InvalidPath" THEN InvalidPath(src)
                                 ELSE NotFileNorDir(src))
                    /\ firstErr' = (IF to = "InvalidPath" THEN InvalidPath(src)
                                    ELSE NotFileNorDir(src))
                    /\ UNCHANGED <<buf, map, idx, stack>>
    /\ UNCHANGED <<err, idleRest>>

Top == stack[Len(stack)]
SetRest(r) == [stack EXCEPT ![Len(stack)].rest = r]

\* The iterator of the innermost from_dir yields an error instead of an
\* entry: ReadFile with the directory's path.
DirEntryErr ==
    /\ pc = "dir"
    /\ ~fs[Top.path].iter_ok
    /\ err' = ReadFile(Top.path)
    /\ firstErr' = ReadFile(Top.path)
    /\ pc' = "unwind"
    /\ UNCHANGED <<buf, map, idx, stack, result, log, idleRest>>

\* The closure of try_for_each on the next entry of the innermost from_dir.
DirEntry ==
    /\ pc = "dir"
    /\ Top.rest # <<>>
    /\ LET e == Head(Top.rest)
           to == EntryBranch(e)
       IN  CASE to = "from_dir" ->
                    \E o \in read_dir(e) :
                        /\ log' = log \o <<Event("entry", e, to, buf),
                                           Event("list", e, "from_dir", buf)>>
                        /\ IF o.res = NoErr
                           THEN /\ stack' = Append(SetRest(Tail(Top.rest)),
                                                   [path |-> e, rest |-> o.rest])
                                /\ UNCHANGED <<pc, err, firstErr>>
                           ELSE /\ pc' = "unwind"
                                /\ err' = o.res
                                /\ firstErr' = o.res
                                /\ UNCHANGED stack
                        /\ UNCHANGED <<buf, map>>
              [] OTHER ->
                    \E o \in from_file(e, buf, map) :
                        /\ buf' = o.buf
                        /\ map' = o.map
                        /\ log' = log \o <<Event("entry", e, to, buf),
                                           Event("read", e, "from_file", buf)>>
                        /\ IF o.res = NoErr
                           THEN /\ stack' = SetRest(Tail(Top.rest))
                                /\ UNCHANGED <<pc, err, firstErr>>
                           ELSE /\ pc' = "unwind"
                                /\ err' = o.res
                                /\ firstErr' = o.res
                                /\ UNCHANGED stack
    /\ UNCHANGED <<idx, result, idleRest>>

\* The innermost from_dir has no entry left and returns Ok(()).
DirReturn ==
    /\ pc = "dir"
    /\ Top.rest = <<>>
    /\ stack' = SubSeq(stack, 1, Len(stack) - 1)
    /\ IF Len(stack) = 1
       THEN pc' = "run" /\ idx' = idx + 1
       ELSE UNCHANGED <<pc, idx>>
    /\ UNCHANGED <<buf, map, err, result, log, firstErr, idleRest>>

\* The innermost from_dir returns the error its try_for_each stopped with.
Unwind ==
    /\ pc = "unwind"
    /\ stack # <<>>
    /\ stack' = SubSeq(stack, 1, Len(stack) - 1)
    /\ err' = from_dir_result(Top.path, err)
    /\ UNCHANGED <<buf, map, pc, idx, result, log, firstErr, idleRest>>

\* collect returns the error from_dir handed it.
CollectErr ==
    /\ pc = "unwind"
    /\ stack = <<>>
    /\ ReturnErr(err)
    /\ UNCHANGED <<buf, map, idx, stack, err, log, firstErr, idleRest>>

\* The end of collect: Ok(self.count()).
CollectCount ==
    /\ \/ pc = "count"
       \/ pc = "run" /\ in_path # NoPaths /\ idx > Len(in_path.paths)
    /\ \E v \in count(map, sort_by) : result' = Ok(v)
    /\ pc' = "done"
    /\ UNCHANGED <<buf, map, idx, stack, err, log, firstErr, idleRest>>

Next ==
    \/ CollectStdin
    \/ CollectPath
    \/ DirEntryErr
    \/ DirEntry
    \/ DirReturn
    \/ Unwind
    \/ CollectErr
    \/ CollectCount

Spec == Init /\ [][Next]_vars

----------------------------------------------------------------------------
(* Claims about the collector *)

RECURSIVE SelectOp(_, _)
SelectOp(l, op) ==
    IF l = <<>> THEN <<>>
    ELSE IF Head(l).op = op THEN <<Head(l)>> \o SelectOp(Tail(l), op)
    ELSE SelectOp(Tail(l), op)

\* C1: collect is fail-fast.  Once an error has been raised nothing more is
\* opened, read, listed or counted, collect returns that very error, and it
\* never returns a WordCountVec after an error.
C1_FailFast ==
    /\ [](firstErr # NoErr =>
            /\ pc \in {"unwind", "done"}
            /\ (pc = "done" => result = Err(firstErr)))
    /\ [](result.tag = "Ok" => firstErr = NoErr)
    /\ [][firstErr # NoErr =>
            /\ log' = log /\ map' = map /\ buf' = buf /\ idx' = idx
            /\ firstErr' = firstErr
            /\ result' \in {NoResult, Err(firstErr)}]_vars

\* An error raised two directories deep, with an entry of the outer directory
\* and a later path of the list left untouched.
C1_Witness ==
    /\ pc = "done"
    /\ in_path = SomePaths(<<"d", "f">>)
    /\ result = Err(ReadFile("d/s/h"))
    /\ \A k \in 1..Len(log) : log[k].path \notin {"d/g", "f"}

\* C2: the paths are classified in the order given, by first match: no entry
\* -> InvalidPath(path); a regular file -> from_file; a directory -> from_dir;
\* anything else -> NotFileNorDir(path).  The two errors carry the path as
\* given and end the run before from_file or from_dir is called for the path.
C2_Classification ==
    in_path.some =>
        LET evs == SelectOp(log, "collect")
        IN  /\ Len(evs) <= Len(in_path.paths)
            /\ \A k \in 1..Len(evs) : evs[k].path = in_path.paths[k]
            /\ \A k \in 1..Len(log) :
                log[k].op = "collect" =>
                    LET p == log[k].path
                        kind == Resolve(p)
                    IN  CASE kind = "none" ->
                                /\ log[k].to = "InvalidPath"
                                /\ k = Len(log)
                                /\ pc = "done"
                                /\ result = Err([tag |-> "InvalidPath", path |-> p])
                          [] kind = "file" ->
                                /\ log[k].to = "from_file"
                                /\ k < Len(log)
                                /\ log[k + 1].op = "read" /\ log[k + 1].path = p
                          [] kind = "dir" ->
                                /\ log[k].to = "from_dir"
                                /\ k < Len(log)
                                /\ log[k + 1].op = "list" /\ log[k + 1].path = p
                          [] OTHER ->
                                /\ log[k].to = "NotFileNorDir"
                                /\ k = Len(log)
                                /\ pc = "done"
                                /\ result = Err([tag |-> "NotFileNorDir", path |-> p])

C2_Witness ==
    /\ pc = "done"
    /\ in_path = SomePaths(<<"f", "x">>)
    /\ fs["x"].kind = "device"
    /\ result = Err(NotFileNorDir("x"))
    /\ Len(SelectOp(log, "collect")) = 2

IsBrokenLink(p) == fs[p].kind = "link" /\ fs[p].tgt = "none"

\* C3 as stated: a broken symbolic link or a device file gives NotFileNorDir,
\* a path with no entry gives InvalidPath.
C3_BrokenLinkNotFileNorDir ==
    \A k \in 1..Len(log) :
        log[k].op = "collect" =>
            LET p == log[k].path
            IN  /\ (IsBrokenLink(p) \/ fs[p].kind = "device") =>
                    result = Err(NotFileNorDir(p))
                /\ fs[p].kind = "none" => result = Err(InvalidPath(p))

\* C3 amended: a broken symbolic link gives InvalidPath, as a path with no
\* entry does; a device file gives NotFileNorDir.
C3_BrokenLinkInvalidPath ==
    \A k \in 1..Len(log) :
        log[k].op = "collect" =>
            LET p == log[k].path
            IN  /\ fs[p].kind = "device" => result = Err(NotFileNorDir(p))
                /\ (IsBrokenLink(p) \/ fs[p].kind = "none") =>
                    result = Err(InvalidPath(p))

C3_Witness ==
    /\ pc = "done"
    /\ IsBrokenLink("x")
    /\ in_path = SomePaths(<<"f", "x">>)
    /\ result = Err(InvalidPath("x"))

\* C4: from_dir descends into an entry exactly when it is a directory and
\* recursive is set; every other entry goes to from_file, where a directory
\* fails with ReadFile, so a non-recursive run over a directory that holds a
\* subdirectory never succeeds.
C4_RecursiveFlag ==
    /\ \A k \in 1..Len(log) :
        log[k].op = "entry" =>
            LET p == log[k].path
            IN  /\ log[k].to = "from_dir" <=> (fs[p].kind = "dir" /\ recursive)
                /\ log[k].to # "from_dir" =>
                    /\ log[k].to = "from_file"
                    /\ log[k + 1].op = "read" /\ log[k + 1].path = p
                /\ (fs[p].kind = "dir" /\ ~recursive) =>
                    /\ firstErr = ReadFile(p)
                    /\ pc = "done" => result = Err(ReadFile(p))
    /\ (/\ ~recursive
        /\ \E i \in 1..Len(in_path.paths) :
            /\ fs[in_path.paths[i]].kind = "dir"
            /\ \E c \in Children(in_path.paths[i]) : fs[c].kind = "dir")
        => result.tag # "Ok"

C4_Witness ==
    /\ pc = "done"
    /\ ~recursive
    /\ in_path = SomePaths(<<"d", "f">>)
    /\ result = Err(ReadFile("d/s"))
    /\ \E k \in 1..Len(log) : log[k].op = "entry" /\ log[k].path = "d/g"

C4_WitnessDescend ==
    /\ pc = "done"
    /\ recursive
    /\ result.tag = "Ok"
    /\ \E k \in 1..Len(log) : log[k] = Event("entry", "d/s", "from_dir", <<>>)

\* What a read of the unit at p delivers.
UnitText(p) == IF p = "stdin" THEN stdin.data ELSE Content(p)

\* The number of times the units read so far hold the word w.
RECURSIVE UnitSum(_, _)
UnitSum(l, w) ==
    IF l = <<>> THEN 0
    ELSE CountOf(count_words(UnitText(Head(l).path), EmptyMap, ignore_case), w)
         + UnitSum(Tail(l), w)

\* C10: the buffer is empty whenever a read of a unit begins, and on success
\* the Dictionary is the sum of the word counts of the units read, a unit read
\* twice counting twice.
C10_BufferEmptyAtRead ==
    /\ \A k \in 1..Len(log) : log[k].op = "read" => log[k].buf0 = <<>>
    /\ pc \in {"run", "dir", "count"} => buf = <<>>
    /\ result.tag = "Ok" =>
        \A w \in DOMAIN map \cup
                 UNION {Pieces(UnitText(p)) : p \in Paths \cup {"stdin"}} :
            CountOf(map, w) = UnitSum(SelectOp(log, "read"), w)

C10_Witness ==
    /\ result.tag = "Ok"
    /\ in_path = SomePaths(<<"f", "f">>)
    /\ ~ignore_case
    /\ map = (<<97>> :> 2 @@ <<65>> :> 2)

----------------------------------------------------------------------------
(* The comparators and WordCount::count on their own *)

MaxCount == 2

\* "a", "b", "B", "aa", "ab" and "é" (U+00E9: one letter, two bytes).
SortWords == {<<97>>, <<98>>, <<66>>, <<97, 97>>, <<97, 98>>, <<233>>}
SortPairs == SortWords \X (1..MaxCount)

\* The Dictionary that holds the given pairs, the earlier pair winning where
\* two have the same word (a Dictionary's keys are unique).
DictOf(ps) ==
    [w \in {ps[i][1] : i \in 1..Len(ps)} |->
        ps[CHOOSE i \in 1..Len(ps) :
              ps[i][1] = w /\ \A j \in 1..(i - 1) : ps[j][1] # w][2]]

InitSort ==
    /\ ignore_case = FALSE
    /\ sort_by \in SortBys \cup {"none"}
    /\ first \in SortPairs
    /\ second \in SortPairs
    /\ third \in SortPairs
    /\ map = DictOf(<<first, second, third>>)
    /\ ord = <<>>
    /\ items = <<>>
    /\ IdleCollect /\ IdleWords /\ IdleFmt

\* Each comparator applied to the pairs, both ways round.
Compare ==
    /\ ord = <<>>
    /\ ord' = [sb \in SortBys |->
                [fs |-> compare(sb, first, second),
                 sf |-> compare(sb, second, first),
                 st |-> compare(sb, second, third),
                 ft |-> compare(sb, first, third),
                 ff |-> compare(sb, first, first)]]
    /\ UNCHANGED <<ignore_case, sort_by, map, items, first, second, third,
                   collectVars, wordVars, fmtVars>>

\* WordCount::count on the Dictionary.
Count ==
    /\ result = NoResult
    /\ \E v \in count(map, sort_by) : result' = Ok(v)
    /\ UNCHANGED <<ignore_case, sort_by, map, items, recursive, buf, in_path,
                   fs, stdin, pc, idx, stack, err, log, firstErr, wordVars,
                   cmpVars, fmtVars>>

NextSort == Compare \/ Count

SpecSort == InitSort /\ [][NextSort]_vars

\* a comes before b in the lexicographic order of their characters.
LexLess(a, b) ==
    \E k \in 1..(Len(a) + 1) :
        /\ \A i \in 1..(k - 1) : i <= Len(b) /\ a[i] = b[i]
        /\ k <= Len(b)
        /\ (k <= Len(a) => a[k] < b[k])

\* The number of bytes of a word in UTF-8 (code points below U+0800).
ByteLen(w) == Len(w) + Cardinality({i \in 1..Len(w) : w[i] >= 128})

\* The length of a word: in bytes, or in characters.
WLen(w, inBytes) == IF inBytes THEN ByteLen(w) ELSE Len(w)

\* The pair p comes before the pair q in the order named sb.
InOrder(sb, p, q, inBytes) ==
    CASE sb = "count_asc" ->
            \/ p[2] < q[2]
            \/ /\ p[2] = q[2]
               /\ \/ WLen(p[1], inBytes) < WLen(q[1], inBytes)
                  \/ /\ WLen(p[1], inBytes) = WLen(q[1], inBytes)
                     /\ LexLess(p[1], q[1])
      [] sb = "count_desc" ->
            \/ p[2] > q[2]
            \/ p[2] = q[2] /\ LexLess(q[1], p[1])
      [] sb = "alpha_asc" -> LexLess(p[1], q[1])
      [] sb = "alpha_desc" -> LexLess(q[1], p[1])

\* v lists every pair of the Dictionary m once.
IsFlattening(v, m) ==
    /\ Len(v) = Cardinality(DOMAIN m)
    /\ \A w \in DOMAIN m : \E i \in 1..Len(v) : v[i] = <<w, m[w]>>

SortedBy(inBytes) ==
    (result.tag = "Ok" /\ sort_by \in SortBys) =>
        /\ IsFlattening(result.vec, map)
        /\ \A i \in 1..(Len(result.vec) - 1) :
            InOrder(sort_by, result.vec[i], result.vec[i + 1], inBytes)

\* C7 as stated: with a sort selected the result is a permutation of the
\* Dictionary's pairs with every adjacent pair in the selected order, the
\* length of a word being its number of characters.
C7_SortedByCharLength == SortedBy(FALSE)

\* C7 amended: the same, the length of a word being its number of bytes in
\* UTF-8 (String::len).
C7_SortedByByteLength == SortedBy(TRUE)

\* "é" and "aa" tie on count and on byte length, and "aa" sorts first.
C7_Witness ==
    /\ sort_by = "count_asc"
    /\ map = (<<233>> :> 1 @@ <<97, 97>> :> 1 @@ <<98>> :> 2)
    /\ result = Ok(<<<<<<97, 97>>, 1>>, <<<<233>>, 1>>, <<<<98>>, 2>>>>)

Flip(o) == CASE o = "Less" -> "Greater" [] o = "Greater" -> "Less" [] OTHER -> "Equal"

\* The comparator sb is antisymmetric and transitive on the three pairs.
Ordering(sb) ==
    /\ ord[sb].sf = Flip(ord[sb].fs)
    /\ ord[sb].ff = "Equal"
    /\ (ord[sb].fs = "Less" /\ ord[sb].st \in {"Less", "Equal"}) => ord[sb].ft = "Less"
    /\ (ord[sb].fs = "Equal" /\ ord[sb].st = "Less") => ord[sb].ft = "Less"
    /\ (ord[sb].fs = "Equal" /\ ord[sb].st = "Equal") => ord[sb].ft = "Equal"
    /\ (ord[sb].fs = "Greater" /\ ord[sb].st \in {"Greater", "Equal"}) =>
            ord[sb].ft = "Greater"
    /\ (ord[sb].fs = "Equal" /\ ord[sb].st = "Greater") => ord[sb].ft = "Greater"

\* With a sort selected, count returns the same sequence whatever the order in
\* which the map hands out its entries.
Deterministic ==
    (result.tag = "Ok" /\ sort_by \in SortBys) =>
        \A v \in into_iter(map) : sort(sort_by, v) = result.vec

\* C8 as stated: each of the four comparators is antisymmetric and transitive
\* and returns Equal only for one and the same pair; so the sorted flattening
\* of a Dictionary does not depend on the enumeration order.
C8_StrictTotalOnAllPairs ==
    /\ ord # <<>> =>
        \A sb \in SortBys :
            /\ Ordering(sb)
            /\ ord[sb].fs = "Equal" => first = second
    /\ Deterministic

\* C8 amended: all four are antisymmetric and transitive; count_asc and
\* count_desc return Equal only for one and the same pair, alpha_asc and
\* alpha_desc exactly for two pairs with the same word, whatever their counts:
\* they are strict total orders over pairs with distinct words, such as the
\* pairs of one Dictionary; so the sorted flattening of a Dictionary does not
\* depend on the enumeration order.
C8_StrictTotalOnDictionaryPairs ==
    /\ ord # <<>> =>
        /\ \A sb \in SortBys : Ordering(sb)
        /\ \A sb \in {"count_asc", "count_desc"} :
            ord[sb].fs = "Equal" => first = second
        /\ \A sb \in {"alpha_asc", "alpha_desc"} :
            ord[sb].fs = "Equal" <=> first[1] = second[1]
    /\ Deterministic

\* Three pairs of one count, compared and sorted by count descending.
C8_Witness ==
    /\ ord # <<>>
    /\ sort_by = "count_desc"
    /\ first = <<<<97>>, 2>> /\ second = <<<<233>>, 2>> /\ third = <<<<97, 98>>, 2>>
    /\ result = Ok(<<second, third, first>>)

----------------------------------------------------------------------------
(* The formatters plain and csv *)

MaxItems == 2

\* Display for u32: the decimal digits.
RECURSIVE fmt_u32(_)
fmt_u32(n) ==
    IF n < 10 THEN <<48 + n>> ELSE fmt_u32(n \div 10) \o <<48 + (n % 10)>>

\* write!(*writer, "{} {}\n", key, value): the bytes of one write of plain.
plain_line(p) == bytes(p[1]) \o <<32>> \o fmt_u32(p[2]) \o <<10>>

\* write!(*writer, "\"{}\", {}\n", key, value): one write of csv.
csv_lineUnquoted(p) == bytes(p[1]) \o <<44, 32>> \o fmt_u32(p[2]) \o <<10>>

csv_line(p) == <<34>> \o bytes(p[1]) \o <<34, 44, 32>> \o fmt_u32(p[2]) \o <<10>>

\* write!(*writer, "word, count\n")
csv_header == <<119, 111, 114, 100, 44, 32, 99, 111, 117, 110, 116, 10>>

\* The writes of a formatter, in order, on a sink that accepts `accepts`
\* writes and fails the next: the `?` returns at the first failed write and
\* what was written stays written.
RECURSIVE write_all(_, _, _)
write_all(writes, out, accepts) ==
    IF writes = <<>> THEN [sink |-> out, res |-> "Ok"]
    ELSE IF accepts = 0 THEN [sink |-> out, res |-> "Err"]
    ELSE write_all(Tail(writes), out \o Head(writes), accepts - 1)

plain(its, accepts) ==
    write_all([i \in 1..Len(its) |-> plain_line(its[i])], <<>>, accepts)

csv(its, accepts) ==
    write_all(<<csv_header>> \o [i \in 1..Len(its) |-> csv_line(its[i])],
              <<>>, accepts)

\* "a", "ab" and "é", with counts of one, two and three digits.
FmtPairs == {<<97>>, <<97, 98>>, <<233>>} \X {1, 20, 305}

InitFmt ==
    /\ ignore_case = FALSE
    /\ sort_by = "none"
    /\ map = EmptyMap
    /\ items \in SeqsUpTo(FmtPairs, MaxItems)
    /\ sink = <<>>
    /\ format = "none"
    /\ IdleCollect /\ IdleWords /\ IdleCmp

Plain ==
    /\ format = "none"
    /\ \E accepts \in 0..(Len(items) + 1) :
        LET o == plain(items, accepts)
        IN  sink' = o.sink /\ result' = [tag |-> o.res]
    /\ format' = "plain"
    /\ UNCHANGED <<ignore_case, sort_by, map, items, recursive, buf, in_path,
                   fs, stdin, pc, idx, stack, err, log, firstErr, wordVars,
                   cmpVars>>

Csv ==
    /\ format = "none"
    /\ \E accepts \in 0..(Len(items) + 1) :
        LET o == csv(items, accepts)
        IN  sink' = o.sink /\ result' = [tag |-> o.res]
    /\ format' = "csv"
    /\ UNCHANGED <<ignore_case, sort_by, map, items, recursive, buf, in_path,
                   fs, stdin, pc, idx, stack, err, log, firstErr, wordVars,
                   cmpVars>>

NextFmt == Plain \/ Csv

SpecFmt == InitFmt /\ [][NextFmt]_vars

\* The lines of an output: the bytes before each newline.
RECURSIVE LinesOf(_, _)
LinesOf(out, cur) ==
    IF out = <<>> THEN <<>>
    ELSE IF Head(out) = 10 THEN <<cur>> \o LinesOf(Tail(out), <<>>)
    ELSE LinesOf(Tail(out), Append(cur, Head(out)))

\* The number a string of decimal digits denotes.
RECURSIVE DecValue(_)
DecValue(d) ==
    IF d = <<>> THEN 0 ELSE 10 * DecValue(SubSeq(d, 1, Len(d) - 1)) + (d[Len(d)] - 48)

IsNumber(d, n) ==
    /\ d # <<>>
    /\ \A i \in 1..Len(d) : d[i] \in 48..57
    /\ DecValue(d) = n

\* The word of a pair as the bytes the output carries.
RECURSIVE WordBytes(_)
WordBytes(w) ==
    IF w = <<>> THEN <<>>
    ELSE (IF Head(w) < 128 THEN <<Head(w)>>
          ELSE <<192 + (Head(w) \div 64), 128 + (Head(w) % 64)>>)
         \o WordBytes(Tail(w))

\* line is pre, the word of p, mid and the count of p in decimal.
IsLineOf(line, pre, p, mid) ==
    LET head == pre \o WordBytes(p[1]) \o mid
    IN  /\ Len(line) > Len(head)
        /\ SubSeq(line, 1, Len(head)) = head
        /\ IsNumber(SubSeq(line, Len(head) + 1, Len(line)), p[2])

\* C9: on a sink that accepts every write, plain writes one line
\* "<word> <count>" per pair and no header; csv writes the header
\* "word, count" and then one line "\"<word>\", <count>" per pair; both keep
\* the order of the pairs and end every line with a newline.
C9_PlainAndCsvLines ==
    (format # "none" /\ result.tag = "Ok") =>
        LET lines == LinesOf(sink, <<>>)
            N == Len(items)
        IN  /\ sink # <<>> => sink[Len(sink)] = 10
            /\ format = "plain" =>
                /\ Len(lines) = N
                /\ \A i \in 1..N : IsLineOf(lines[i], <<>>, items[i], <<32>>)
            /\ format = "csv" =>
                /\ Len(lines) = N + 1
                /\ lines[1] = <<119, 111, 114, 100, 44, 32, 99, 111, 117, 110, 116>>
                /\ \A i \in 1..N :
                    IsLineOf(lines[i + 1], <<34>>, items[i], <<34, 44, 32>>)

C9_Witness ==
    /\ format = "csv"
    /\ result.tag = "Ok"
    /\ items = <<<<<<233>>, 305>>, <<<<97>>, 20>>>>
    /\ Len(LinesOf(sink, <<>>)) = 3

============================================================================
